---- MODULE Spec2Model ----
(***************************************************************************)
(* Verification model of examples/pipeline_wavernn:                        *)
(*   loss_mol.py  - log_sum_exp and LossFn_Mol (mixture-of-logistics loss) *)
(*   wavernn.py   - save_checkpoint, train_one_epoch, evaluate, main       *)
(*                                                                         *)
(* Tensors hold floating-point numbers.  They are modelled by a small      *)
(* decimal floating-point format with Digits significant digits, a bounded *)
(* exponent, round-half-even, overflow to +-Inf and IEEE rules for Inf and *)
(* NaN, so that rounding, absorption, overflow and 0*Inf = NaN are part of *)
(* the model.                                                              *)
(***************************************************************************)
EXTENDS Integers, Sequences, FiniteSets, TLC

VARIABLES
    \* one call of LossFn_Mol: its arguments
    y_hat, y, num_classes, log_scale_min, reduce,
    \* its position, its locals and its return value
    lpc, unpacked, elems, log_probs, ret

lossVars == <<y_hat, y, num_classes, log_scale_min, reduce,
              lpc, unpacked, elems, log_probs, ret>>

VARIABLES
    \* the command line: args.mode, args.epochs, args.print_freq,
    \* args.start_epoch, args.checkpoint, and the length of the data loaders
    mode, epochs, print_freq, start_epoch, checkpoint, n_batches,
    \* the files on disk: the checkpoint, its ".temp" and model_best.pth.tar
    disk,
    \* the running process: the function called first, its position, the
    \* exception that ended it and the function that raised it
    entry, pc, err, raised_in,
    \* locals of main, train_one_epoch and evaluate
    criterion, best_loss, epoch, batch_i, sum_loss, is_best,
    \* arguments of the save_checkpoint call in progress and its caller
    sv_state, sv_is_best, sv_ret,
    \* the criterion last applied, optimizer steps taken by this process
    applied, opt_steps,
    \* history of this process: best_loss before the loop and before the
    \* last evaluation, the validation losses evaluated, the epochs trained
    \* and evaluated, the checkpoints saved from the loop
    start_best, prev_best, evaluated, trained, evald, loop_saves,
    \* interruptions so far
    restarts

argVars == <<mode, epochs, print_freq, checkpoint, n_batches, entry>>
procVars == <<start_epoch, pc, err, raised_in, criterion, best_loss, epoch, batch_i,
              sum_loss, is_best, sv_state, sv_is_best, sv_ret, applied,
              opt_steps, start_best, prev_best, evaluated, trained, evald,
              loop_saves>>
mainVars == <<argVars, procVars, disk, restarts>>

vars == <<lossVars, mainVars>>

\* ------------------------------------------------------------------------
\* Floating point format
\* ------------------------------------------------------------------------

\* significant decimal digits of a tensor element
Digits == 3
\* largest decimal exponent of the leading digit of a finite element
ExpMax == 19

RECURSIVE Pow10(_)
Pow10(n) == IF n <= 0 THEN 1 ELSE 10 * Pow10(n - 1)

MantHi == Pow10(Digits) - 1
MantLo == Pow10(Digits - 1)
\* exponent of the unit in the last place: value = m * 10^e
EMax == ExpMax - (Digits - 1)
EMin == (0 - ExpMax) - (Digits - 1)

NaN == [k |-> "nan", m |-> 0, e |-> 0]
PInf == [k |-> "inf", m |-> 1, e |-> 0]
NInf == [k |-> "inf", m |-> -1, e |-> 0]
Zero == [k |-> "fin", m |-> 0, e |-> 0]
Fin(m, e) == [k |-> "fin", m |-> m, e |-> e]

IsNaN(x) == x.k = "nan"
IsInf(x) == x.k = "inf"
IsFinite(x) == x.k = "fin"
Abs(n) == IF n < 0 THEN 0 - n ELSE n
Sgn(n) == IF n < 0 THEN -1 ELSE IF n > 0 THEN 1 ELSE 0
InfOf(s) == IF s < 0 THEN NInf ELSE PInf

RECURSIVE NumDigits(_)
NumDigits(n) == IF n < 10 THEN 1 ELSE 1 + NumDigits(n \div 10)

\* round-half-even of the magnitude n * 10^e to Digits digits; s is the sign
Round(s, n, e) ==
    IF n = 0 THEN Zero
    ELSE LET d == NumDigits(n)
             k == d - Digits
         IN IF k <= 0
            THEN LET m2 == n * Pow10(0 - k)
                     e2 == e + k
                 IN IF e2 > EMax THEN InfOf(s)
                    ELSE IF e2 < EMin THEN Zero
                    ELSE Fin(s * m2, e2)
            ELSE LET p == Pow10(k)
                     q == n \div p
                     r == n % p
                     up == (2 * r > p) \/ (2 * r = p /\ q % 2 = 1)
                     q1 == IF up THEN q + 1 ELSE q
                     m2 == IF q1 > MantHi THEN MantLo ELSE q1
                     e2 == IF q1 > MantHi THEN e + k + 1 ELSE e + k
                 IN IF e2 > EMax THEN InfOf(s)
                    ELSE IF e2 < EMin THEN Zero
                    ELSE Fin(s * m2, e2)

\* the float nearest to the integer n * 10^e
F(n, e) == Round(Sgn(n), Abs(n), e)

FNeg(x) == IF IsNaN(x) THEN NaN ELSE [x EXCEPT !.m = 0 - x.m]

\* x < y on floats; any comparison with NaN is false
FLt(a, b) ==
    IF IsNaN(a) \/ IsNaN(b) THEN FALSE
    ELSE IF IsInf(a) THEN a.m < 0 /\ ~(IsInf(b) /\ b.m < 0)
    ELSE IF IsInf(b) THEN b.m > 0
    ELSE IF Sgn(a.m) # Sgn(b.m) THEN Sgn(a.m) < Sgn(b.m)
    ELSE IF a.m = 0 THEN FALSE
    ELSE IF a.m > 0 THEN a.e < b.e \/ (a.e = b.e /\ a.m < b.m)
    ELSE a.e > b.e \/ (a.e = b.e /\ a.m < b.m)

FGt(a, b) == FLt(b, a)

FAdd(a, b) ==
    IF IsNaN(a) \/ IsNaN(b) THEN NaN
    ELSE IF IsInf(a) THEN (IF IsInf(b) /\ b.m # a.m THEN NaN ELSE a)
    ELSE IF IsInf(b) THEN b
    ELSE IF a.m = 0 THEN b
    ELSE IF b.m = 0 THEN a
    ELSE LET big == IF a.e >= b.e THEN a ELSE b
             sml == IF a.e >= b.e THEN b ELSE a
             d == big.e - sml.e
         IN IF d > Digits + 1 THEN big
            ELSE LET n == big.m * Pow10(d) + sml.m
                 IN F(n, sml.e)

FSub(a, b) == FAdd(a, FNeg(b))

FMul(a, b) ==
    IF IsNaN(a) \/ IsNaN(b) THEN NaN
    ELSE IF IsInf(a) \/ IsInf(b)
         THEN (IF a.m = 0 \/ b.m = 0 THEN NaN ELSE InfOf(Sgn(a.m) * Sgn(b.m)))
    ELSE F(a.m * b.m, a.e + b.e)

FDiv(a, b) ==
    IF IsNaN(a) \/ IsNaN(b) THEN NaN
    ELSE IF IsInf(a) THEN (IF IsInf(b) THEN NaN
                           ELSE InfOf(a.m * (IF b.m < 0 THEN -1 ELSE 1)))
    ELSE IF IsInf(b) THEN Zero
    ELSE IF b.m = 0 THEN (IF a.m = 0 THEN NaN ELSE InfOf(Sgn(a.m)))
    ELSE LET n == Abs(a.m) * Pow10(Digits + 1)
             q == n \div Abs(b.m)
             r == n % Abs(b.m)
         IN Round(Sgn(a.m) * Sgn(b.m), 10 * q + (IF r > 0 THEN 1 ELSE 0),
                  a.e - b.e - Digits - 2)

One == Fin(MantLo, 0 - (Digits - 1))

\* ------------------------------------------------------------------------
\* Elementary functions of the tensor library (torch.exp, torch.log,
\* torch.sigmoid, F.softplus), evaluated in 4-decimal fixed point and
\* rounded to the float format
\* ------------------------------------------------------------------------

\* fixed-point unit: 1.0
FxOne == Pow10(4)
\* ln(10) and ln(2) in fixed point
FxLn10 == (23026 * FxOne) \div 10000
FxLn2 == (6931 * FxOne) \div 10000

\* round-half-away of n / p for p > 0
DivRound(n, p) == Sgn(n) * ((2 * Abs(n) + p) \div (2 * p))

\* a finite float of magnitude below 100 as a fixed-point integer
ToFixed(x) ==
    LET s == x.e + 4
    IN IF s >= 0 THEN x.m * Pow10(s)
       ELSE IF 0 - s > Digits + 1 THEN 0
       ELSE DivRound(x.m, Pow10(0 - s))

\* magnitude of a finite float is at least 100
IsLarge(x) == x.m # 0 /\ x.e + (Digits - 1) >= 2

RECURSIVE ExpHorner(_, _)
ExpHorner(h, k) ==
    IF k > 12 THEN FxOne
    ELSE FxOne + (h * ExpHorner(h, k + 1)) \div (k * FxOne)

FExp(x) ==
    IF IsNaN(x) THEN NaN
    ELSE IF IsInf(x) THEN (IF x.m > 0 THEN PInf ELSE Zero)
    ELSE IF IsLarge(x) THEN (IF x.m > 0 THEN PInf ELSE Zero)
    ELSE LET X == ToFixed(x)
             n == X \div FxLn10
             r == X % FxLn10
             E == ExpHorner(r \div 2, 1)
             sq == (E * E) \div FxOne
             v == IF r % 2 = 1 THEN sq + sq \div (2 * FxOne) ELSE sq
         IN Round(1, v, n - 4)

\* ln(Z / FxOne) in fixed point, for an integer Z > 0
RECURSIVE LnFixed(_)
LnFixed(Z) ==
    IF Z >= 2 * FxOne THEN FxLn2 + LnFixed(DivRound(Z, 2))
    ELSE IF Z < FxOne THEN LnFixed(2 * Z) - FxLn2
    ELSE LET t == DivRound((Z - FxOne) * FxOne, Z + FxOne)
             t2 == DivRound(t * t, FxOne)
             p3 == DivRound(t * t2, FxOne)
             p5 == DivRound(p3 * t2, FxOne)
             p7 == DivRound(p5 * t2, FxOne)
             p9 == DivRound(p7 * t2, FxOne)
         IN 2 * (t + DivRound(p3, 3) + DivRound(p5, 5) + DivRound(p7, 7)
                 + DivRound(p9, 9))

FLog(x) ==
    IF IsNaN(x) THEN NaN
    ELSE IF IsInf(x) THEN (IF x.m > 0 THEN PInf ELSE NaN)
    ELSE IF x.m < 0 THEN NaN
    ELSE IF x.m = 0 THEN NInf
    ELSE F(LnFixed(DivRound(x.m * FxOne, MantLo))
             + (x.e + (Digits - 1)) * FxLn10, -4)

\* log1p as the library computes it: accurate for small arguments
FLog1p(u) ==
    IF IsNaN(u) THEN NaN
    ELSE IF IsFinite(u) /\ (u.m = 0 \/ u.e + (Digits - 1) < -4) THEN u
    ELSE IF IsFinite(u) /\ u.m > 0 /\ u.e + (Digits - 1) < 1
         THEN F(LnFixed(FxOne + ToFixed(u)), -4)
    ELSE FLog(FAdd(One, u))

\* F.softplus(x) with beta = 1 and threshold = 20
Softplus(x) ==
    IF IsNaN(x) THEN NaN
    ELSE IF FGt(x, F(20, 0)) THEN x
    ELSE FLog1p(FExp(x))

\* torch.sigmoid(x) = 1 / (1 + exp(-x))
Sigmoid(x) == FDiv(One, FAdd(One, FExp(FNeg(x))))

\* torch.clamp(x, min=lo)
ClampMin(x, lo) == IF IsNaN(x) THEN NaN ELSE IF FLt(x, lo) THEN lo ELSE x

\* the larger of two elements as torch.max reduces them (NaN propagates)
FMax(a, b) == IF IsNaN(a) \/ IsNaN(b) THEN NaN ELSE IF FLt(a, b) THEN b ELSE a

\* ------------------------------------------------------------------------
\* loss_mol.py
\* A tensor is [shape, rows]: rows lists the vectors along the last axis,
\* one per index of the leading axes in row-major order.
\* ------------------------------------------------------------------------

RECURSIVE SeqSum(_)
\* torch.sum along the last axis
SeqSum(xs) == IF Len(xs) = 0 THEN Zero
              ELSE IF Len(xs) = 1 THEN xs[1]
              ELSE FAdd(SeqSum(SubSeq(xs, 1, Len(xs) - 1)), xs[Len(xs)])

RECURSIVE SeqMax(_)
\* torch.max along the last axis
SeqMax(xs) == IF Len(xs) = 1 THEN xs[1]
              ELSE FMax(SeqMax(SubSeq(xs, 1, Len(xs) - 1)), xs[Len(xs)])

\* torch.mean over all elements
TorchMean(xs) == FDiv(SeqSum(xs), F(Len(xs), 0))

\* F.log_softmax(x, -1) of one row
log_softmax(x) ==
    LET m == SeqMax(x)
        sh == [i \in 1..Len(x) |-> FSub(x[i], m)]
        lse == FLog(SeqSum([i \in 1..Len(x) |-> FExp(sh[i])]))
    IN [i \in 1..Len(x) |-> FSub(sh[i], lse)]

\* log_sum_exp(x) of one row
log_sum_exp(x) ==
    LET m == SeqMax(x)
        m2 == SeqMax(x)
    IN FAdd(m, FLog(SeqSum([i \in 1..Len(x) |-> FExp(FSub(x[i], m2))])))

\* min_value = float(np.log(1e-14))
min_value == F(-322361913, -7)

\* the None default of log_scale_min
DefaultLogScaleMin(lsm) == IF lsm.k = "none" THEN min_value ELSE lsm

\* only the rank is asserted
ShapeOk_RankOnly(yh) == Len(yh.shape) = 3

\* the two assertions on y_hat
ShapeOk(yh) == Len(yh.shape) = 3 /\ yh.shape[Len(yh.shape)] % 3 = 0

nr_mix(yh) == yh.shape[Len(yh.shape)] \div 3

\* a tensor comparison followed by .float()
Mask(b) == IF b THEN One ELSE Zero

\* mask * a + (1. - mask) * b
Blend(mask, a, b) == FAdd(FMul(mask, a), FMul(FSub(One, mask), b))

\* 1. / (num_classes - 1)
HalfBin(nc) == FDiv(One, F(nc - 1, 0))

\* tmp = np.log((num_classes - 1) / 2) as the code holds it
tmp == F(1039719245, -8)

\* lines 41-73 for one (batch, time, component) element
Element(yv, mean, log_scale, nc) ==
    LET centered_y == FSub(yv, mean)
        inv_stdv == FExp(FNeg(log_scale))
        plus_in == FMul(inv_stdv, FAdd(centered_y, HalfBin(nc)))
        cdf_plus == Sigmoid(plus_in)
        min_in == FMul(inv_stdv, FSub(centered_y, HalfBin(nc)))
        cdf_min == Sigmoid(min_in)
        log_cdf_plus == FSub(plus_in, Softplus(plus_in))
        log_one_minus_cdf_min == FNeg(Softplus(min_in))
        cdf_delta == FSub(cdf_plus, cdf_min)
        mid_in == FMul(inv_stdv, centered_y)
        log_pdf_mid == FSub(FSub(mid_in, log_scale),
                            FMul(F(2, 0), Softplus(mid_in)))
        inner_inner_cond == Mask(FGt(cdf_delta, F(1, -5)))
        inner_inner_out == Blend(inner_inner_cond,
                                 FLog(ClampMin(cdf_delta, F(1, -12))),
                                 FSub(log_pdf_mid, tmp))
        inner_cond == Mask(FGt(yv, F(999, -3)))
        inner_out == Blend(inner_cond, log_one_minus_cdf_min, inner_inner_out)
        cond == Mask(FLt(yv, F(-999, -3)))
    IN [log_cdf_plus |-> log_cdf_plus,
        log_one_minus_cdf_min |-> log_one_minus_cdf_min,
        cdf_delta |-> cdf_delta,
        log_pdf_mid |-> log_pdf_mid,
        log_probs |-> Blend(cond, log_cdf_plus, inner_out)]

\* lines 31-39: unpack parameters of every row, clamp log_scales, expand y
Unpacked(yh, yt, lsm) ==
    LET K == nr_mix(yh)
    IN [r \in 1..Len(yh.rows) |->
          [logit_probs |-> SubSeq(yh.rows[r], 1, K),
           means |-> SubSeq(yh.rows[r], K + 1, 2 * K),
           log_scales |-> [i \in 1..K |->
                             ClampMin(yh.rows[r][2 * K + i], lsm)],
           y |-> [i \in 1..K |-> yt.rows[r][1]]]]

\* lines 41-73 over the unpacked tensor
Elementwise(p, nc) ==
    [r \in 1..Len(p) |->
       [i \in 1..Len(p[r].means) |->
          Element(p[r].y[i], p[r].means[i], p[r].log_scales[i], nc)]]

\* the raw logits are added, not their log_softmax
Mixed_RawLogits(p, el) ==
    [r \in 1..Len(p) |->
       [i \in 1..Len(p[r].logit_probs) |->
          FAdd(el[r][i].log_probs, p[r].logit_probs[i])]]

\* line 76: log_probs + F.log_softmax(logit_probs, -1)
Mixed(p, el) ==
    [r \in 1..Len(p) |->
       LET w == log_softmax(p[r].logit_probs)
       IN [i \in 1..Len(w) |-> FAdd(el[r][i].log_probs, w[i])]]

\* torch.sum where the code calls torch.mean
Reduced_Sum(lp, shape, red) ==
    LET lse == [r \in 1..Len(lp) |-> log_sum_exp(lp[r])]
    IN IF red
       THEN [shape |-> << >>, rows |-> << <<FNeg(SeqSum(lse))>> >>]
       ELSE [shape |-> <<shape[1], shape[2], 1>>,
             rows |-> [r \in 1..Len(lp) |-> <<FNeg(lse[r])>>]]

\* lines 78-81
Reduced(lp, shape, red) ==
    LET lse == [r \in 1..Len(lp) |-> log_sum_exp(lp[r])]
    IN IF red
       THEN [shape |-> << >>, rows |-> << <<FNeg(TorchMean(lse))>> >>]
       ELSE [shape |-> <<shape[1], shape[2], 1>>,
             rows |-> [r \in 1..Len(lp) |-> <<FNeg(lse[r])>>]]

\* the value LossFn_Mol returns for a y_hat that passes the assertions
LossFn_Mol(yh, yt, nc, lsm, red) ==
    LET p == Unpacked(yh, yt, DefaultLogScaleMin(lsm))
    IN Reduced(Mixed(p, Elementwise(p, nc)), yh.shape, red)

\* ------------------------------------------------------------------------
\* One call of LossFn_Mol, statement by statement
\* ------------------------------------------------------------------------

\* largest number of time steps and of mixture components of an input
MaxT == 2
MaxMix == 2

None == [k |-> "none", m |-> 0, e |-> 0]
NotYet == << >>

TargetValues == {FNeg(One), F(5, -1), F(999, -3), One}
MeanValues == {F(5, -1), F(1, 7)}
LogScaleValues == {F(-40, 0), F(-2, 0)}
LogitValues == {Zero, F(3, 0)}
NumClassesValues == {256, 65536}
LogScaleMinValues == {None, F(-7, 0)}

\* the rows [logit_probs | means | log_scales] with K components;
\* the first logit is 0
RowsOf(K) ==
    {[i \in 1..(3 * K) |->
        IF i <= K THEN (IF i = 1 THEN Zero ELSE l[i])
        ELSE IF i <= 2 * K THEN m[i - K] ELSE s[i - 2 * K]] :
     l \in [1..K -> LogitValues], m \in [1..K -> MeanValues],
     s \in [1..K -> LogScaleValues]}

\* well-shaped inputs [1, T, 3K] with targets [1, T, 1]; the targets vary
\* from one time step to the next, the mixture parameters do not
ValidInputs ==
    UNION {UNION {{[y_hat |-> [shape |-> <<1, T, 3 * K>>, rows |-> rs],
                    y |-> [shape |-> <<1, T, 1>>, rows |-> ts]] :
                   rs \in {[t \in 1..T |-> r] : r \in RowsOf(K)},
                   ts \in [1..T -> {<<v>> : v \in TargetValues}]} :
                  K \in {k \in 1..MaxMix : T = 1 \/ k = 1}} :
           T \in 1..MaxT}

\* inputs of rank 2 and 4, and of rank 3 with a last axis of 4 and 5
BadShapes == {<<1, 3>>, <<1, 1, 1, 3>>, <<1, 1, 4>>, <<1, 1, 5>>}

InvalidInputs ==
    {[y_hat |-> [shape |-> sh,
                 rows |-> <<[i \in 1..sh[Len(sh)] |-> v]>>],
      y |-> [shape |-> <<1, 1, 1>>, rows |-> << <<t>> >>]] :
     sh \in BadShapes, v \in MeanValues, t \in TargetValues}

InitLossIdle ==
    /\ y_hat = NotYet /\ y = NotYet /\ num_classes = 0
    /\ log_scale_min = None /\ reduce = FALSE
    /\ lpc = "idle" /\ unpacked = NotYet /\ elems = NotYet
    /\ log_probs = NotYet /\ ret = NotYet

InitLoss ==
    /\ \E in \in ValidInputs \cup InvalidInputs :
          y_hat = in.y_hat /\ y = in.y
    /\ num_classes \in NumClassesValues
    /\ log_scale_min \in LogScaleMinValues
    /\ reduce \in BOOLEAN
    /\ lpc = "call"
    /\ unpacked = NotYet /\ elems = NotYet /\ log_probs = NotYet
    /\ ret = NotYet

\* lines 24-29: default log_scale_min, then the two assertions
Asserts ==
    /\ lpc = "call"
    /\ log_scale_min' = DefaultLogScaleMin(log_scale_min)
    /\ lpc' = IF ShapeOk(y_hat) THEN "unpack" ELSE "AssertionError"
    /\ UNCHANGED <<y_hat, y, num_classes, reduce, unpacked, elems,
                   log_probs, ret, mainVars>>

\* lines 31-39
Unpack ==
    /\ lpc = "unpack"
    /\ unpacked' = Unpacked(y_hat, y, log_scale_min)
    /\ lpc' = "elementwise"
    /\ UNCHANGED <<y_hat, y, num_classes, log_scale_min, reduce, elems,
                   log_probs, ret, mainVars>>

\* lines 41-73
ElementwiseStep ==
    /\ lpc = "elementwise"
    /\ elems' = Elementwise(unpacked, num_classes)
    /\ lpc' = "mix"
    /\ UNCHANGED <<y_hat, y, num_classes, log_scale_min, reduce, unpacked,
                   log_probs, ret, mainVars>>

\* line 76
MixStep ==
    /\ lpc = "mix"
    /\ log_probs' = Mixed(unpacked, elems)
    /\ lpc' = "reduce"
    /\ UNCHANGED <<y_hat, y, num_classes, log_scale_min, reduce, unpacked,
                   elems, ret, mainVars>>

\* lines 78-81
ReduceStep ==
    /\ lpc = "reduce"
    /\ ret' = Reduced(log_probs, y_hat.shape, reduce)
    /\ lpc' = "done"
    /\ UNCHANGED <<y_hat, y, num_classes, log_scale_min, reduce, unpacked,
                   elems, log_probs, mainVars>>

NextLoss == Asserts \/ Unpack \/ ElementwiseStep \/ MixStep \/ ReduceStep



\* ------------------------------------------------------------------------
\* Properties of LossFn_Mol (checked under SpecLoss)
\* ------------------------------------------------------------------------

\* the elementwise log-probabilities of the call have been computed
ElemsKnown == lpc \in {"mix", "reduce", "done"}

ElemIndex == {<<r, i>> \in (1..Len(elems)) \X (1..MaxMix + 1) :
                i <= Len(elems[r])}

\* every branch value of an element is finite
BranchesFinite(el) ==
    /\ IsFinite(el.log_cdf_plus) /\ IsFinite(el.log_one_minus_cdf_min)
    /\ IsFinite(el.cdf_delta) /\ IsFinite(el.log_pdf_mid)

\* the value the edge-case policy selects for an element with target yv
PolicyValue(el, yv) ==
    IF FLt(yv, F(-999, -3)) THEN el.log_cdf_plus
    ELSE IF FGt(yv, F(999, -3)) THEN el.log_one_minus_cdf_min
    ELSE IF FGt(el.cdf_delta, F(1, -5))
         THEN FLog(IF FLt(el.cdf_delta, F(1, -12)) THEN F(1, -12)
                   ELSE el.cdf_delta)
    ELSE FSub(el.log_pdf_mid, tmp)

\* C1: each element's log-probability is exactly the value of the branch
\* the precedence y < -0.999, y > 0.999, cdf_delta > 1e-5, fallback selects,
\* with no contribution from the other branches (stated for the elements
\* whose selected branch value is finite).
C1_EdgeCasePolicy ==
    ElemsKnown =>
        \A ix \in ElemIndex :
            LET sel == PolicyValue(elems[ix[1]][ix[2]], y.rows[ix[1]][1])
            IN IsFinite(sel) => elems[ix[1]][ix[2]].log_probs = sel

\* supporting fact: the policy of C1 holds for every element whose branch
\* values are all finite
C1_PolicyWhenBranchesFinite ==
    ElemsKnown =>
        \A ix \in ElemIndex :
            BranchesFinite(elems[ix[1]][ix[2]]) =>
                elems[ix[1]][ix[2]].log_probs
                    = PolicyValue(elems[ix[1]][ix[2]], y.rows[ix[1]][1])

\* C2: for an interior target with cdf_delta <= 1e-5 the value used is
\* log_pdf_mid - log((num_classes - 1) / 2) for the num_classes of the call
\* (stated for elements whose branch values are finite).
C2_FallbackUsesNumClasses ==
    ElemsKnown =>
        \A ix \in ElemIndex :
            LET el == elems[ix[1]][ix[2]]
                yv == y.rows[ix[1]][1]
            IN (/\ BranchesFinite(el)
                /\ ~FLt(yv, F(-999, -3)) /\ ~FGt(yv, F(999, -3))
                /\ ~FGt(el.cdf_delta, F(1, -5)))
               => el.log_probs
                    = FSub(el.log_pdf_mid,
                           FLog(FDiv(F(num_classes - 1, 0), F(2, 0))))

\* supporting fact: with the default num_classes the offset of C2 is tmp
C2_FallbackAtDefaultNumClasses ==
    (ElemsKnown /\ num_classes = 65536) => C2_FallbackUsesNumClasses

\* C3: a y_hat that is not rank 3, or whose last axis is not divisible by
\* 3, fails with the assertion before unpacking, clamping or any CDF
\* evaluation, and returns nothing.
C3_InvalidShapeFailsFast ==
    (Len(y_hat.shape) # 3 \/ y_hat.shape[Len(y_hat.shape)] % 3 # 0) =>
        /\ lpc \in {"call", "AssertionError"}
        /\ unpacked = NotYet /\ elems = NotYet /\ log_probs = NotYet
        /\ ret = NotYet

C3_Witness ==
    /\ lpc = "AssertionError"
    /\ Len(y_hat.shape) = 3
    /\ y_hat.shape[Len(y_hat.shape)] % 3 # 0

\* the unreduced loss of the call in progress
UnreducedLoss == LossFn_Mol(y_hat, y, num_classes, log_scale_min, FALSE)

\* C4: with reduce=True the call returns the mean over all (batch, time)
\* positions of what reduce=False returns; the reduce=False result has
\* shape [B, T, 1].
C4_ReduceIsMeanOfUnreduced ==
    lpc = "done" =>
        LET u == UnreducedLoss
            vals == [r \in 1..Len(u.rows) |-> u.rows[r][1]]
        IN /\ u.shape = <<y_hat.shape[1], y_hat.shape[2], 1>>
           /\ Len(u.rows) = y_hat.shape[1] * y_hat.shape[2]
           /\ \A r \in 1..Len(u.rows) : Len(u.rows[r]) = 1
           /\ reduce => ret.rows[1][1] = FDiv(SeqSum(vals), F(Len(vals), 0))
           /\ ~reduce => ret = u

C4_Witness ==
    /\ lpc = "done" /\ reduce
    /\ Len(y_hat.rows) >= 2
    /\ IsFinite(ret.rows[1][1])
    /\ UnreducedLoss.rows[1] # UnreducedLoss.rows[2]

\* C5: the returned loss contains no NaN and no Inf: a non-finite value of
\* an unselected branch never reaches the result (stated for the inputs
\* whose selected branch values are all finite).
C5_OutputFinite ==
    (lpc = "done"
     /\ \A ix \in ElemIndex :
           IsFinite(PolicyValue(elems[ix[1]][ix[2]], y.rows[ix[1]][1])))
    => \A r \in 1..Len(ret.rows) : IsFinite(ret.rows[r][1])

\* constants added to the mixing logits
ShiftValues == {F(2, 0), F(1, 4)}

\* y_hat with c added to all logit_probs of every position
Shifted(yh, c) ==
    [yh EXCEPT !.rows =
        [r \in 1..Len(yh.rows) |->
           [i \in 1..Len(yh.rows[r]) |->
              IF i <= nr_mix(yh) THEN FAdd(yh.rows[r][i], c)
              ELSE yh.rows[r][i]]]]

\* the integer n * 10^e is the value of the finite float r
SameValue(r, n, e) ==
    IF r.e >= e THEN r.m * Pow10(r.e - e) = n ELSE r.m = n * Pow10(e - r.e)

\* a + c is representable: the addition neither rounds nor overflows
ExactAdd(a, c) ==
    /\ IsFinite(a) /\ IsFinite(c)
    /\ \/ a.m = 0
       \/ c.m = 0
       \/ LET big == IF a.e >= c.e THEN a ELSE c
              sml == IF a.e >= c.e THEN c ELSE a
              d == big.e - sml.e
          IN /\ d <= Digits + 1
             /\ LET n == big.m * Pow10(d) + sml.m
                    r == F(n, sml.e)
                IN IsFinite(r) /\ SameValue(r, n, sml.e)

ExactShift(yh, c) ==
    \A r \in 1..Len(yh.rows) : \A i \in 1..nr_mix(yh) :
        ExactAdd(yh.rows[r][i], c)

\* C6 as stated: adding any constant to all K logits of a position leaves
\* the loss unchanged.
C6_ShiftInvariant ==
    lpc = "done" =>
        \A c \in ShiftValues :
            LossFn_Mol(Shifted(y_hat, c), y, num_classes, log_scale_min,
                       reduce) = ret

\* C6 amended: adding a constant to all K logits of a position leaves the
\* loss unchanged whenever every shifted logit is exactly representable.
C6_ExactShiftInvariant ==
    lpc = "done" =>
        \A c \in ShiftValues :
            ExactShift(y_hat, c) =>
                LossFn_Mol(Shifted(y_hat, c), y, num_classes, log_scale_min,
                           reduce) = ret

C6_Witness ==
    /\ lpc = "done"
    /\ nr_mix(y_hat) >= 2
    /\ y_hat.rows[1][1] # y_hat.rows[1][2]
    /\ \E c \in ShiftValues : ExactShift(y_hat, c)
    /\ IsFinite(ret.rows[1][1])

\* ------------------------------------------------------------------------
\* wavernn.py: save_checkpoint, train_one_epoch, evaluate, main
\* A checkpoint state is abstracted to its epoch and best_loss fields.
\* ------------------------------------------------------------------------

\* largest args.epochs, args.print_freq and data loader length, and the
\* number of interruptions followed by a rerun
MaxEpochs == 3
MaxPrintFreq == 2
MaxBatches == 2
MaxRestarts == 1

\* values of args.mode
Modes == {"RAW", "MOL", "XYZ"}
\* average validation losses evaluate can return
LossValues == {F(5, -1), F(9, -1), NaN}

NoState == [epoch |-> 0, best_loss |-> Zero]
Absent == [present |-> FALSE, complete |-> FALSE, state |-> NoState]
\* a file holding all of st (complete) or a prefix of it
File(st, complete) == [present |-> TRUE, complete |-> complete, state |-> st]

\* min(a, b) of Python: b only if b < a
PyMin(a, b) == IF FLt(b, a) THEN b ELSE a

\* the if / elif / else on model.mode in train_one_epoch and evaluate
ModeBranch_NoElse(md) == IF md = "MOL" THEN "unsqueeze" ELSE "transpose"

ModeBranch(md) ==
    IF md = "RAW" THEN "transpose"
    ELSE IF md = "MOL" THEN "unsqueeze"
    ELSE "ValueError"

\* not (epoch + 1) % args.print_freq or epoch + 1 == args.epochs
EvalDue(ep, pf, eps) == (ep + 1) % pf = 0 \/ ep + 1 = eps

\* the process variables of a fresh run of the script
FreshProcess ==
    /\ start_epoch = 0 /\ err = "none" /\ raised_in = "none"
    /\ criterion = "none" /\ best_loss = Zero /\ epoch = 0 /\ batch_i = 0
    /\ sum_loss = Zero /\ is_best = FALSE
    /\ sv_state = NoState /\ sv_is_best = FALSE /\ sv_ret = "none"
    /\ applied = "none" /\ opt_steps = 0
    /\ start_best = Zero /\ prev_best = Zero /\ evaluated = {}
    /\ trained = {} /\ evald = {} /\ loop_saves = 0

InitMain ==
    /\ mode \in Modes
    /\ epochs \in 1..MaxEpochs
    /\ print_freq \in 1..MaxPrintFreq
    /\ checkpoint \in {"", "checkpoint.pth.par"}
    /\ n_batches \in 1..MaxBatches
    /\ entry \in {"main", "evaluate"}
    /\ pc = entry
    /\ (entry = "evaluate" => checkpoint = "")
    /\ disk = [ckpt |-> Absent, temp |-> Absent, best |-> Absent]
    /\ restarts = 0
    /\ FreshProcess

InitMainIdle ==
    /\ mode = "RAW" /\ epochs = 0 /\ print_freq = 1 /\ checkpoint = ""
    /\ n_batches = 0 /\ entry = "none" /\ pc = "idle"
    /\ disk = [ckpt |-> Absent, temp |-> Absent, best |-> Absent]
    /\ restarts = 0
    /\ FreshProcess

\* save_checkpoint(state, is_best, args.checkpoint) is called; ret names
\* the statement that follows the call
CallSave(st, best, target) ==
    /\ sv_state' = st /\ sv_is_best' = best /\ sv_ret' = target
    /\ pc' = "save_checkpoint"

\* save_checkpoint returns to its caller: the first iteration of the epoch
\* loop after the initial save, the next iteration after a save in the loop
ReturnFromSave ==
    /\ pc' = "for"
    /\ epoch' = IF sv_ret = "first_epoch" THEN start_epoch ELSE epoch + 1

\* main, lines 324-454: build the model, criterion = nn.CrossEntropyLoss(),
\* best_loss = 1.0, then load the checkpoint or save the initial one
MainSetup ==
    /\ pc = "main"
    /\ criterion' = "CrossEntropyLoss"
    /\ IF checkpoint # "" /\ disk.ckpt.present
       THEN IF disk.ckpt.complete
            THEN /\ start_epoch' = disk.ckpt.state.epoch
                 /\ best_loss' = disk.ckpt.state.best_loss
                 /\ start_best' = disk.ckpt.state.best_loss
                 /\ prev_best' = disk.ckpt.state.best_loss
                 /\ epoch' = disk.ckpt.state.epoch
                 /\ pc' = "for"
                 /\ UNCHANGED <<err, raised_in, sv_state, sv_is_best, sv_ret>>
            ELSE /\ pc' = "raised" /\ err' = "UnpicklingError"
                 /\ raised_in' = "main"
                 /\ UNCHANGED <<start_epoch, best_loss, start_best, prev_best,
                                epoch, sv_state, sv_is_best, sv_ret>>
       ELSE /\ best_loss' = One /\ start_best' = One /\ prev_best' = One
            /\ CallSave([epoch |-> start_epoch, best_loss |-> One], FALSE,
                        "first_epoch")
            /\ UNCHANGED <<start_epoch, epoch, err, raised_in>>
    /\ UNCHANGED <<argVars, disk, restarts, batch_i, sum_loss, is_best, applied,
                   opt_steps, evaluated, trained, evald, loop_saves,
                   lossVars>>

\* save_checkpoint, lines 220-227: return on an empty filename, else remove
\* a leftover tempfile
SaveEntry ==
    /\ pc = "save_checkpoint"
    /\ IF checkpoint = ""
       THEN ReturnFromSave /\ UNCHANGED disk
       ELSE /\ disk' = [disk EXCEPT !.temp = Absent]
            /\ pc' = "torch_save"
            /\ UNCHANGED epoch
    /\ UNCHANGED <<argVars, restarts, start_epoch, err, raised_in, criterion,
                   best_loss, batch_i, sum_loss, is_best, sv_state, sv_is_best,
                   sv_ret, applied, opt_steps, start_best, prev_best,
                   evaluated, trained, evald, loop_saves, lossVars>>

\* line 229, torch.save(state, tempfile): the file is created and written
TorchSaveBegin ==
    /\ pc = "torch_save"
    /\ disk' = [disk EXCEPT !.temp = File(sv_state, FALSE)]
    /\ pc' = "torch_saving"
    /\ UNCHANGED <<argVars, restarts, start_epoch, err, raised_in, criterion,
                   best_loss, epoch, batch_i, sum_loss, is_best, sv_state,
                   sv_is_best, sv_ret, applied, opt_steps, start_best,
                   prev_best, evaluated, trained, evald, loop_saves,
                   lossVars>>

\* line 229: the write completes
TorchSaveEnd ==
    /\ pc = "torch_saving"
    /\ disk' = [disk EXCEPT !.temp = File(sv_state, TRUE)]
    /\ pc' = "rename"
    /\ UNCHANGED <<argVars, restarts, start_epoch, err, raised_in, criterion,
                   best_loss, epoch, batch_i, sum_loss, is_best, sv_state,
                   sv_is_best, sv_ret, applied, opt_steps, start_best,
                   prev_best, evaluated, trained, evald, loop_saves,
                   lossVars>>

\* lines 230-232: os.rename(tempfile, filename), atomic
Rename ==
    /\ pc = "rename"
    /\ disk' = IF disk.temp.present
               THEN [disk EXCEPT !.ckpt = disk.temp, !.temp = Absent]
               ELSE disk
    /\ IF sv_is_best
       THEN pc' = "copyfile" /\ UNCHANGED epoch
       ELSE ReturnFromSave
    /\ UNCHANGED <<argVars, restarts, start_epoch, err, raised_in, criterion,
                   best_loss, batch_i, sum_loss, is_best, sv_state, sv_is_best,
                   sv_ret, applied, opt_steps, start_best, prev_best,
                   evaluated, trained, evald, loop_saves, lossVars>>

\* line 233, shutil.copyfile(filename, "model_best.pth.tar"): the
\* destination is opened for writing and filled
CopyBegin ==
    /\ pc = "copyfile"
    /\ disk' = [disk EXCEPT !.best = File(disk.ckpt.state, FALSE)]
    /\ pc' = "copying"
    /\ UNCHANGED <<argVars, restarts, start_epoch, err, raised_in, criterion,
                   best_loss, epoch, batch_i, sum_loss, is_best, sv_state,
                   sv_is_best, sv_ret, applied, opt_steps, start_best,
                   prev_best, evaluated, trained, evald, loop_saves,
                   lossVars>>

\* line 233: the copy completes; save_checkpoint returns
CopyEnd ==
    /\ pc = "copying"
    /\ disk' = [disk EXCEPT !.best = File(disk.ckpt.state, TRUE)]
    /\ ReturnFromSave
    /\ UNCHANGED <<argVars, restarts, start_epoch, err, raised_in, criterion,
                   best_loss, batch_i, sum_loss, is_best, sv_state, sv_is_best,
                   sv_ret, applied, opt_steps, start_best, prev_best,
                   evaluated, trained, evald, loop_saves, lossVars>>

\* line 458: for epoch in range(args.start_epoch, args.epochs)
ForEpoch ==
    /\ pc = "for"
    /\ IF epoch < epochs
       THEN pc' = "train_one_epoch" /\ batch_i' = 0
       ELSE pc' = "exit" /\ UNCHANGED batch_i
    /\ UNCHANGED <<argVars, disk, restarts, start_epoch, err, raised_in,
                   criterion, best_loss, epoch, sum_loss, is_best, sv_state,
                   sv_is_best, sv_ret, applied, opt_steps, start_best,
                   prev_best, evaluated, trained, evald, loop_saves,
                   lossVars>>

\* train_one_epoch, lines 249-280: one batch
TrainBatch ==
    /\ pc = "train_one_epoch"
    /\ batch_i < n_batches
    /\ IF ModeBranch(mode) = "ValueError"
       THEN /\ pc' = "raised" /\ err' = "ValueError"
            /\ raised_in' = "train_one_epoch"
            /\ UNCHANGED <<batch_i, applied, opt_steps>>
       ELSE /\ applied' = criterion
            /\ opt_steps' = opt_steps + 1
            /\ batch_i' = batch_i + 1
            /\ UNCHANGED <<pc, err, raised_in>>
    /\ UNCHANGED <<argVars, disk, restarts, start_epoch, criterion, best_loss,
                   epoch, sum_loss, is_best, sv_state, sv_is_best, sv_ret,
                   start_best, prev_best, evaluated, trained, evald,
                   loop_saves, lossVars>>

\* train_one_epoch returns; main, line 469
TrainDone ==
    /\ pc = "train_one_epoch"
    /\ batch_i = n_batches
    /\ trained' = trained \cup {epoch}
    /\ IF EvalDue(epoch, print_freq, epochs)
       THEN pc' = "evaluate" /\ batch_i' = 0 /\ UNCHANGED epoch
       ELSE pc' = "for" /\ epoch' = epoch + 1 /\ UNCHANGED batch_i
    /\ UNCHANGED <<argVars, disk, restarts, start_epoch, err, raised_in,
                   criterion, best_loss, sum_loss, is_best, sv_state,
                   sv_is_best, sv_ret, applied, opt_steps, start_best,
                   prev_best, evaluated, evald, loop_saves, lossVars>>

\* evaluate, lines 298-316: one batch
EvalBatch ==
    /\ pc = "evaluate"
    /\ batch_i < n_batches
    /\ IF ModeBranch(mode) = "ValueError"
       THEN /\ pc' = "raised" /\ err' = "ValueError"
            /\ raised_in' = "evaluate"
            /\ UNCHANGED <<batch_i, applied>>
       ELSE /\ applied' = criterion
            /\ batch_i' = batch_i + 1
            /\ UNCHANGED <<pc, err, raised_in>>
    /\ UNCHANGED <<argVars, disk, restarts, start_epoch, criterion, best_loss,
                   epoch, sum_loss, is_best, sv_state, sv_is_best, sv_ret,
                   opt_steps, start_best, prev_best, evaluated, trained,
                   evald, loop_saves, lossVars>>

\* evaluate returns avg_loss; main, lines 471-484
EvalDone ==
    /\ pc = "evaluate"
    /\ batch_i = n_batches
    /\ \E avg_loss \in LossValues :
          /\ sum_loss' = avg_loss
          /\ IF entry = "evaluate"
             THEN /\ pc' = "exit"
                  /\ UNCHANGED <<is_best, best_loss, prev_best, evaluated,
                                 evald, loop_saves, sv_state, sv_is_best,
                                 sv_ret>>
             ELSE /\ is_best' = FLt(avg_loss, best_loss)
                  /\ best_loss' = PyMin(avg_loss, best_loss)
                  /\ prev_best' = best_loss
                  /\ evaluated' = evaluated \cup {avg_loss}
                  /\ evald' = evald \cup {epoch}
                  /\ loop_saves' = loop_saves + 1
                  /\ CallSave([epoch |-> epoch + 1,
                               best_loss |-> PyMin(avg_loss, best_loss)],
                              FLt(avg_loss, best_loss), "next_epoch")
    /\ UNCHANGED <<argVars, disk, restarts, start_epoch, err, raised_in,
                   criterion, epoch, batch_i, applied, opt_steps, start_best,
                   trained, lossVars>>

Running == pc \notin {"idle", "exit", "raised", "crashed"}

\* the process is interrupted; the files stay as they are
Crash ==
    /\ Running
    /\ entry = "main"
    /\ pc' = "crashed"
    /\ UNCHANGED <<argVars, disk, restarts, start_epoch, err, raised_in,
                   criterion, best_loss, epoch, batch_i, sum_loss, is_best,
                   sv_state, sv_is_best, sv_ret, applied, opt_steps,
                   start_best, prev_best, evaluated, trained, evald,
                   loop_saves, lossVars>>

\* the script is run again with the same command line
Restart ==
    /\ pc = "crashed"
    /\ restarts < MaxRestarts
    /\ restarts' = restarts + 1
    /\ pc' = "main"
    /\ start_epoch' = 0 /\ err' = "none" /\ raised_in' = "none"
    /\ criterion' = "none" /\ best_loss' = Zero /\ epoch' = 0 /\ batch_i' = 0
    /\ sum_loss' = Zero /\ is_best' = FALSE
    /\ sv_state' = NoState /\ sv_is_best' = FALSE /\ sv_ret' = "none"
    /\ applied' = "none" /\ opt_steps' = 0
    /\ start_best' = Zero /\ prev_best' = Zero /\ evaluated' = {}
    /\ trained' = {} /\ evald' = {} /\ loop_saves' = 0
    /\ UNCHANGED <<argVars, disk, lossVars>>

Init == InitMain /\ InitLossIdle

Next ==
    \/ MainSetup \/ SaveEntry \/ TorchSaveBegin \/ TorchSaveEnd \/ Rename
    \/ CopyBegin \/ CopyEnd \/ ForEpoch \/ TrainBatch \/ TrainDone
    \/ EvalBatch \/ EvalDone \/ Crash \/ Restart

Spec == Init /\ [][Next]_vars

\* one call of LossFn_Mol on its own, the training script not running
InitCall == InitLoss /\ InitMainIdle

SpecLoss == InitCall /\ [][NextLoss]_vars

\* ------------------------------------------------------------------------
\* Properties of the training script (checked under Spec)
\* ------------------------------------------------------------------------

\* C7: interrupted at any point, save_checkpoint leaves no truncated file
\* under a final name: the checkpoint and the best-model copy are each
\* absent or complete.
C7_AtomicCheckpoint ==
    pc = "crashed" =>
        /\ disk.ckpt.present => disk.ckpt.complete
        /\ disk.best.present => disk.best.complete

\* supporting fact: the file at the checkpoint's own name is never
\* truncated, interrupted or not
C7_TargetNeverTruncated == disk.ckpt.present => disk.ckpt.complete

\* C8: the criterion applied to (y_hat, y) follows the mode: LossFn_Mol for
\* 'MOL', cross-entropy for 'RAW'.
C8_CriterionFollowsMode ==
    applied # "none" =>
        applied = IF mode = "MOL" THEN "LossFn_Mol" ELSE "CrossEntropyLoss"

\* supporting fact: with mode 'RAW' the cross-entropy loss is applied
C8_RawUsesCrossEntropy ==
    (applied # "none" /\ mode = "RAW") => applied = "CrossEntropyLoss"

\* C9: with a mode outside {'RAW', 'MOL'} train_one_epoch and evaluate
\* raise ValueError on the first batch: no loss is computed, no optimizer
\* step is taken, no checkpoint is written from the epoch loop, and nothing
\* runs after the error.
C9_InvalidModeIsFatal ==
    mode \notin {"RAW", "MOL"} =>
        /\ applied = "none"
        /\ opt_steps = 0
        /\ loop_saves = 0 /\ sv_ret # "next_epoch"
        /\ trained = {} /\ evald = {}
        /\ batch_i = 0
        /\ pc = "raised" =>
              /\ err = "ValueError"
              /\ raised_in = IF entry = "main" THEN "train_one_epoch"
                             ELSE "evaluate"
              /\ ~ENABLED Next
        /\ pc = "exit" => (entry = "main" /\ start_epoch >= epochs)

C9_Witness ==
    /\ mode \notin {"RAW", "MOL"}
    /\ pc = "raised" /\ err = "ValueError"
    /\ raised_in = "train_one_epoch"
    /\ disk.ckpt.present

\* a reachable state: evaluate, called on its own, has raised the error
C9_EvaluateRaised ==
    /\ mode \notin {"RAW", "MOL"}
    /\ pc = "raised" /\ err = "ValueError" /\ raised_in = "evaluate"

\* control is inside save_checkpoint
InSave ==
    pc \in {"save_checkpoint", "torch_save", "torch_saving", "rename",
            "copyfile", "copying"}

\* main has run its setup
SetupDone == entry = "main" /\ criterion # "none"

\* best_loss is least among its starting value and the losses evaluated
BestIsMin ==
    /\ best_loss \in evaluated \cup {start_best}
    /\ \A w \in evaluated \cup {start_best} : ~FLt(w, best_loss)

\* the save_checkpoint call made from the epoch loop: is_best is set
\* exactly when the new loss is below the previous best_loss, and the state
\* records epoch + 1 and the updated best_loss
LoopSaveArgs ==
    (InSave /\ sv_ret = "next_epoch") =>
        /\ sv_is_best = FLt(sum_loss, prev_best)
        /\ sv_state = [epoch |-> epoch + 1, best_loss |-> best_loss]
        /\ epoch \in evald

\* evaluation and checkpointing happen exactly at the epochs where
\* (epoch + 1) % print_freq = 0 or epoch + 1 = epochs
EvalSchedule ==
    /\ \A e \in evald : e \in trained /\ EvalDue(e, print_freq, epochs)
    /\ \A e \in trained :
          (e < epoch /\ EvalDue(e, print_freq, epochs)) => e \in evald
    /\ loop_saves = Cardinality(evald)

\* C10: best_loss never increases and is the minimum of its starting value
\* and every validation loss evaluated so far; is_best, the saved epoch and
\* best_loss, and the evaluation schedule are as stated.
C10_BestLossAndSchedule ==
    SetupDone =>
        /\ BestIsMin
        /\ ~FLt(prev_best, best_loss)
        /\ LoopSaveArgs
        /\ EvalSchedule

\* supporting fact: C10 holds as long as no loss involved is NaN
C10_HoldsWithoutNaN ==
    (\A w \in evaluated \cup {start_best} : ~IsNaN(w))
        => C10_BestLossAndSchedule
====
